---------------------------- MODULE Spec2Model ----------------------------
(***************************************************************************)
(* Model of the cpu_usage kernel module (src/cpu_usage.c): a delayed work  *)
(* item that samples the per-CPU time counters, prints the CPU load since  *)
(* the previous sample and queues itself again, with the module's init and *)
(* exit paths and the kernel workqueue they drive.                         *)
(***************************************************************************)
EXTENDS Integers, Naturals, Sequences, FiniteSets, TLC

\* ------------------------------------------------------------------ bounds
WordBits == 8          \* width of unsigned long in the model
NCpus == 2             \* possible CPUs
NWorkers == 2          \* kworker threads serving the unbound pool
MaxAcct == 2           \* accounting events of the kernel in one run
MaxTicks == 2          \* executions of the work function in one run
MaxJiffy == 3          \* magnitude of the snapshot values drawn for the calculation
MaxExitCalls == 2      \* calls of cpu_usage_exit in the re-entry specification
MaxPeriod == 4         \* largest period parameter drawn for the timed runs

\* ------------------------------------------------------- program constants
max_active == 1        \* alloc_workqueue("cpu_usage", WQ_UNBOUND, 1)
DefaultPeriod == 10    \* static uint cpu_usage_report_period = 10

Word == 2 ^ WordBits
CPUs == 1 .. NCpus
Workers == 1 .. NWorkers

\* enum cpu_usage_stat, in the order of the kernel's declaration; the loop of
\* get_cpu_stats runs over index 0 .. NR_STATS - 1
CpuTimeNames ==
  << "CPUTIME_USER", "CPUTIME_NICE", "CPUTIME_SYSTEM", "CPUTIME_SOFTIRQ",
     "CPUTIME_IRQ", "CPUTIME_IDLE", "CPUTIME_IOWAIT", "CPUTIME_STEAL",
     "CPUTIME_GUEST", "CPUTIME_GUEST_NICE" >>
NR_STATS == Len(CpuTimeNames)
StatIndex == 1 .. NR_STATS

\* the case labels of the switch in get_cpu_stats
RelevantNames ==
  { "CPUTIME_USER", "CPUTIME_NICE", "CPUTIME_SYSTEM", "CPUTIME_IRQ",
    "CPUTIME_SOFTIRQ", "CPUTIME_STEAL" }

\* ------------------------------------------------- unsigned long arithmetic
WordAdd(a, b) == (a + b) % Word
WordSub(a, b) == (a + Word - b) % Word
WordMul(a, b) == (a * b) % Word

\* ------------------------------------------------------------ get_cpu_stats
\* the switch without the label CPUTIME_STEAL
IsRelevantNoSteal(index) ==
  CpuTimeNames[index] \in (RelevantNames \ { "CPUTIME_STEAL" })

\* lines 44-53: the index is one of the case labels
IsRelevant(index) == CpuTimeNames[index] \in RelevantNames

\* The loops of get_cpu_stats carry two accumulators, total_jiffies and
\* relevant_jiffies, through the same iterations; each is written here as its
\* own fold over those iterations, in the order of the code.

\* line 55 placed in a default: branch of the switch: the total counts only
\* the categories that are not relevant
RECURSIVE SumTotalDefaultOnly(_, _, _)
SumTotalDefaultOnly(cpu_stats, index, total_jiffies) ==
  IF index > NR_STATS THEN total_jiffies
  ELSE SumTotalDefaultOnly(cpu_stats, index + 1,
         IF IsRelevant(index) THEN total_jiffies
         ELSE WordAdd(total_jiffies, cpu_stats[index]))

\* lines 41-56, total_jiffies: every category of one kernel_cpustat is added
RECURSIVE SumTotal(_, _, _)
SumTotal(cpu_stats, index, total_jiffies) ==
  IF index > NR_STATS THEN total_jiffies
  ELSE SumTotal(cpu_stats, index + 1, WordAdd(total_jiffies, cpu_stats[index]))

\* lines 41-56, relevant_jiffies: the categories of the switch are added
RECURSIVE SumRelevant(_, _, _)
SumRelevant(cpu_stats, index, relevant_jiffies) ==
  IF index > NR_STATS THEN relevant_jiffies
  ELSE SumRelevant(cpu_stats, index + 1,
         IF IsRelevant(index) THEN WordAdd(relevant_jiffies, cpu_stats[index])
         ELSE relevant_jiffies)

\* for_each_online_cpu, in ascending cpu id
RECURSIVE TotalOver(_, _, _, _)
TotalOver(stat, mask, cpu_id, total_jiffies) ==
  IF cpu_id > NCpus THEN total_jiffies
  ELSE TotalOver(stat, mask, cpu_id + 1,
         IF cpu_id \in mask THEN SumTotal(stat[cpu_id], 1, total_jiffies)
         ELSE total_jiffies)

RECURSIVE RelevantOver(_, _, _, _)
RelevantOver(stat, mask, cpu_id, relevant_jiffies) ==
  IF cpu_id > NCpus THEN relevant_jiffies
  ELSE RelevantOver(stat, mask, cpu_id + 1,
         IF cpu_id \in mask THEN SumRelevant(stat[cpu_id], 1, relevant_jiffies)
         ELSE relevant_jiffies)

\* lines 34-35 and 59-60: both start at 0 and are stored through the pointers
get_cpu_stats(stat, mask) ==
  [ total |-> TotalOver(stat, mask, 1, 0),
    relevant |-> RelevantOver(stat, mask, 1, 0) ]

\* ------------------------------------- the load computed by report_work_main
\* lines 69-75 with the division done before the scaling by 100
UsageComputeNoScale(last_total, last_relevant, total_jiffies, relevant_jiffies) ==
  LET total_jiffies_diff == WordSub(total_jiffies, last_total)
      relevant_jiffies_diff == WordSub(relevant_jiffies, last_relevant)
      divide == total_jiffies_diff > 0
  IN [ totalDelta |-> total_jiffies_diff,
       relevantDelta |-> relevant_jiffies_diff,
       divided |-> divide,
       fault |-> FALSE,
       percent |-> IF divide
                     THEN WordMul(100, relevant_jiffies_diff \div total_jiffies_diff)
                     ELSE 0 ]

\* lines 69-75 with the relevant counter used without subtracting the last one
UsageComputeCumulative(last_total, last_relevant, total_jiffies, relevant_jiffies) ==
  LET total_jiffies_diff == WordSub(total_jiffies, last_total)
      relevant_jiffies_diff == relevant_jiffies
      divide == total_jiffies_diff > 0
  IN [ totalDelta |-> total_jiffies_diff,
       relevantDelta |-> WordSub(relevant_jiffies, last_relevant),
       divided |-> divide,
       fault |-> FALSE,
       percent |-> IF divide
                     THEN WordMul(100, relevant_jiffies_diff) \div total_jiffies_diff
                     ELSE 0 ]

\* lines 69-75 with the conditional testing the relevant difference
UsageComputeWrongGuard(last_total, last_relevant, total_jiffies, relevant_jiffies) ==
  LET total_jiffies_diff == WordSub(total_jiffies, last_total)
      relevant_jiffies_diff == WordSub(relevant_jiffies, last_relevant)
      divide == relevant_jiffies_diff > 0
  IN [ totalDelta |-> total_jiffies_diff,
       relevantDelta |-> relevant_jiffies_diff,
       divided |-> divide,
       fault |-> divide /\ total_jiffies_diff = 0,
       percent |-> IF divide /\ total_jiffies_diff # 0
                     THEN WordMul(100, relevant_jiffies_diff) \div total_jiffies_diff
                     ELSE 0 ]

\* the total difference clamped to zero when the sample is below the last
\* counter, in place of the unsigned subtraction
UsageComputeClamped(last_total, last_relevant, total_jiffies, relevant_jiffies) ==
  LET total_jiffies_diff ==
        IF total_jiffies < last_total THEN 0 ELSE total_jiffies - last_total
      relevant_jiffies_diff == WordSub(relevant_jiffies, last_relevant)
      divide == total_jiffies_diff > 0
  IN [ totalDelta |-> total_jiffies_diff,
       relevantDelta |-> relevant_jiffies_diff,
       divided |-> divide,
       fault |-> divide /\ total_jiffies_diff = 0,
       percent |-> IF divide /\ total_jiffies_diff # 0
                     THEN WordMul(100, relevant_jiffies_diff) \div total_jiffies_diff
                     ELSE 0 ]

\* lines 69-75: the two unsigned differences and the printed value; divided
\* records that the division was evaluated, fault that its divisor was zero
UsageCompute(last_total, last_relevant, total_jiffies, relevant_jiffies) ==
  LET total_jiffies_diff == WordSub(total_jiffies, last_total)
      relevant_jiffies_diff == WordSub(relevant_jiffies, last_relevant)
      divide == total_jiffies_diff > 0
  IN [ totalDelta |-> total_jiffies_diff,
       relevantDelta |-> relevant_jiffies_diff,
       divided |-> divide,
       fault |-> divide /\ total_jiffies_diff = 0,
       percent |-> IF divide /\ total_jiffies_diff # 0
                     THEN WordMul(100, relevant_jiffies_diff) \div total_jiffies_diff
                     ELSE 0 ]

NoReport == [ totalDelta |-> 0, relevantDelta |-> 0, divided |-> FALSE,
              fault |-> FALSE, percent |-> 0 ]

\* -------------------------------------------------------------------- state
VARIABLES
  cpustat,                \* kcpustat_cpu(cpu).cpustat[index], kept by the kernel
  online,                 \* cpu_online_mask
  acct,                   \* accounting events so far (bounds the run)
  cpu_usage_report_work_queue,   \* "NULL", "alloc" or "freed" (dangling)
  should_work_still_run,
  last_total_jiffies,
  last_relevant_jiffies,
  cpu_usage_report_work,  \* [timer, queued, canceling]: the delayed work item
  worker,                 \* per kworker: position in report_work_main and its locals
  init_pc,                \* "unloaded", "loaded" or "failed"
  exit_pc,                \* position of cpu_usage_exit
  ticks,                  \* executions of report_work_main started
  reports,                \* usage lines printed
  last_report,            \* the values of the last usage line
  stop_reports,           \* usage lines printed since line 110 ran
  stop_done,              \* executions that returned since line 110 ran
  stop_rearms,            \* times an execution queued the work since line 110 ran
  flush_done,             \* executions that returned while line 112 was waiting
  destroys,               \* calls of destroy_workqueue
  fault,                  \* the kernel faulted (use after free, divide error)
  cpu_usage_report_period,  \* the module parameter, in seconds
  now,                    \* the clock, in seconds
  taken,                  \* the snapshot get_cpu_stats returned last
  prev_taken              \* the snapshot it returned the time before

envVars == << cpustat, online, acct >>
modVars == << cpu_usage_report_work_queue, should_work_still_run,
              last_total_jiffies, last_relevant_jiffies >>
wqVars == << cpu_usage_report_work, worker >>
pcVars == << init_pc, exit_pc >>
logVars == << ticks, reports, last_report >>
stopVars == << stop_reports, stop_done, stop_rearms, flush_done >>
errVars == << destroys, fault >>
clockVars == << cpu_usage_report_period, now >>
histVars == << taken, prev_taken >>
vars == << envVars, modVars, wqVars, pcVars, logVars, stopVars, errVars,
           clockVars, histVars >>

IdleWorker == [ pc |-> "idle", total_jiffies |-> 0, relevant_jiffies |-> 0,
                run |-> FALSE ]
IdleWork == [ timer |-> FALSE, queued |-> FALSE, canceling |-> FALSE,
              expires |-> 0 ]
NoSnapshot == [ total |-> 0, relevant |-> 0 ]

\* WORK_STRUCT_PENDING: owned by the timer, by the worklist or by a canceller
Pending(work) == work.timer \/ work.queued \/ work.canceling

\* the kworkers inside report_work_main
Executing == { w \in Workers : worker[w].pc # "idle" }

\* the static initialisers of lines 26-29 and the idle work of line 85
ModuleInit ==
  /\ cpu_usage_report_work_queue = "NULL"
  /\ should_work_still_run = TRUE
  /\ last_total_jiffies = 0
  /\ last_relevant_jiffies = 0
  /\ cpu_usage_report_work = IdleWork
  /\ worker = [ w \in Workers |-> IdleWorker ]
  /\ init_pc = "unloaded"
  /\ exit_pc = "idle"
  /\ ticks = 0
  /\ reports = 0
  /\ last_report = NoReport
  /\ stop_reports = 0
  /\ stop_done = 0
  /\ stop_rearms = 0
  /\ flush_done = 0
  /\ destroys = 0
  /\ fault = FALSE
  /\ now = 0
  /\ taken = NoSnapshot
  /\ prev_taken = NoSnapshot

Init ==
  /\ cpustat = [ c \in CPUs |-> [ i \in StatIndex |-> 0 ] ]
  /\ online = CPUs
  /\ acct = 0
  /\ cpu_usage_report_period = DefaultPeriod
  /\ ModuleInit

\* -------------------------------------------------------------- environment
\* the amounts one accounting event adds: a small step, and for the runs
\* that exercise the sampler alone also a step to the top of the word
AcctSteps == { 1 }
SampleSteps == { 1, Word - 1 }

\* the counters and the online mask are read by get_cpu_stats alone, so the
\* environment is shown moving only where a sample is about to be taken: before
\* cpu_usage_init and between the entry of a tick and its sample
SampleDue == init_pc = "unloaded" \/ \E w \in Workers : worker[w].pc = "entry"

\* the kernel accounts time of an online cpu to one category
Account(cpu, index, d) ==
  /\ SampleDue
  /\ acct < MaxAcct
  /\ cpu \in online
  /\ cpustat' = [ cpustat EXCEPT ![cpu][index] = WordAdd(@, d) ]
  /\ acct' = acct + 1
  /\ UNCHANGED << online, modVars, wqVars, pcVars, logVars, stopVars, errVars >>
  /\ UNCHANGED << clockVars, histVars >>

\* cpu hotplug; the boot cpu cannot be taken offline
BootCpu == CHOOSE c \in CPUs : \A d \in CPUs : c <= d

CpuDown(cpu) ==
  /\ SampleDue
  /\ cpu \in online
  /\ cpu # BootCpu
  /\ online' = online \ { cpu }
  /\ UNCHANGED << cpustat, acct, modVars, wqVars, pcVars, logVars, stopVars, errVars >>
  /\ UNCHANGED << clockVars, histVars >>

CpuUp(cpu) ==
  /\ SampleDue
  /\ cpu \notin online
  /\ online' = online \cup { cpu }
  /\ UNCHANGED << cpustat, acct, modVars, wqVars, pcVars, logVars, stopVars, errVars >>
  /\ UNCHANGED << clockVars, histVars >>

\* ---------------------------------------------------------- the workqueue
\* a delay one second longer than the period
ReportDelaySkewed == cpu_usage_report_period + 1

\* the delay HZ * cpu_usage_report_period, on the clock of the model
ReportDelay == cpu_usage_report_period

\* a queueing that does not test WORK_STRUCT_PENDING
queue_delayed_work_unchecked(work) ==
  [ work EXCEPT !.timer = TRUE, !.expires = now + ReportDelay ]

\* queue_delayed_work: a no-op returning false when the work is pending,
\* else the timer of the work is set to run out after the delay
queue_delayed_work(work) ==
  IF Pending(work) THEN work
  ELSE [ work EXCEPT !.timer = TRUE, !.expires = now + ReportDelay ]

\* the delay ran out: delayed_work_timer_fn puts the work on the worklist
\* (a timer left behind on a freed workqueue is a use after free)
TimerFire ==
  /\ cpu_usage_report_work.timer
  /\ cpu_usage_report_work' =
       [ cpu_usage_report_work EXCEPT !.timer = FALSE, !.queued = TRUE ]
  /\ fault' = (fault \/ cpu_usage_report_work_queue # "alloc")
  /\ UNCHANGED << envVars, modVars, worker, pcVars, logVars, stopVars, destroys >>
  /\ UNCHANGED << clockVars, histVars >>

\* any idle kworker takes the work, whoever else is running it
CanExecuteAny(w) == worker[w].pc = "idle"

\* a kworker may take the work: the workqueue runs at most max_active items
\* at once, and a work item is never run by two kworkers at once
CanExecute(w) ==
  /\ worker[w].pc = "idle"
  /\ Cardinality(Executing) < max_active
  /\ \A v \in Workers : worker[v].pc = "idle"

\* process_one_work: the work leaves the worklist, PENDING is cleared and
\* report_work_main is entered
WorkerStart(w) ==
  /\ cpu_usage_report_work.queued
  /\ CanExecute(w)
  /\ ticks < MaxTicks
  /\ cpu_usage_report_work' = [ cpu_usage_report_work EXCEPT !.queued = FALSE ]
  /\ worker' = [ worker EXCEPT ![w].pc = "entry" ]
  /\ ticks' = ticks + 1
  /\ UNCHANGED << envVars, modVars, pcVars, reports, last_report, stopVars, errVars >>
  /\ UNCHANGED << clockVars, histVars >>

\* --------------------------------------------------------- report_work_main
Stopping == exit_pc # "idle"

\* lines 67-68: get_cpu_stats(&total_jiffies, &relevant_jiffies)
TickSample(w) ==
  /\ worker[w].pc = "entry"
  /\ LET stats == get_cpu_stats(cpustat, online)
     IN /\ worker' = [ worker EXCEPT ![w].pc = "sampled",
                                     ![w].total_jiffies = stats.total,
                                     ![w].relevant_jiffies = stats.relevant ]
        /\ taken' = stats
        /\ prev_taken' = taken
  /\ UNCHANGED << envVars, modVars, cpu_usage_report_work, pcVars, logVars,
                  stopVars, errVars, clockVars >>

\* the usage line printed only when the total difference is not zero
TickReportSkipZero(w) ==
  /\ worker[w].pc = "sampled"
  /\ LET usage == UsageCompute(last_total_jiffies, last_relevant_jiffies,
                               worker[w].total_jiffies, worker[w].relevant_jiffies)
         printed == usage.totalDelta > 0
     IN /\ last_report' = IF printed THEN usage ELSE last_report
        /\ fault' = (fault \/ usage.fault)
        /\ reports' = IF printed THEN reports + 1 ELSE reports
        /\ stop_reports' =
             IF printed /\ Stopping THEN stop_reports + 1 ELSE stop_reports
  /\ worker' = [ worker EXCEPT ![w].pc = "reported" ]
  /\ UNCHANGED << envVars, modVars, cpu_usage_report_work, pcVars, ticks,
                  stop_done, stop_rearms, flush_done, destroys >>
  /\ UNCHANGED << clockVars, histVars >>

\* lines 69-75: the differences against the last counters and the usage line
TickReport(w) ==
  /\ worker[w].pc = "sampled"
  /\ LET usage == UsageCompute(last_total_jiffies, last_relevant_jiffies,
                               worker[w].total_jiffies, worker[w].relevant_jiffies)
     IN /\ last_report' = usage
        /\ fault' = (fault \/ usage.fault)
  /\ reports' = reports + 1
  /\ stop_reports' = IF Stopping THEN stop_reports + 1 ELSE stop_reports
  /\ worker' = [ worker EXCEPT ![w].pc = "reported" ]
  /\ UNCHANGED << envVars, modVars, cpu_usage_report_work, pcVars, ticks,
                  stop_done, stop_rearms, flush_done, destroys >>
  /\ UNCHANGED << clockVars, histVars >>

\* line 78 left out: only the relevant counter is carried over
TickUpdateRelevantOnly(w) ==
  /\ worker[w].pc = "reported"
  /\ last_relevant_jiffies' = worker[w].relevant_jiffies
  /\ worker' = [ worker EXCEPT ![w].pc = "updated" ]
  /\ UNCHANGED << envVars, cpu_usage_report_work_queue, should_work_still_run,
                  last_total_jiffies, cpu_usage_report_work, pcVars, logVars,
                  stopVars, errVars >>
  /\ UNCHANGED << clockVars, histVars >>

\* line 79 left out: only the total counter is carried over
TickUpdateTotalOnly(w) ==
  /\ worker[w].pc = "reported"
  /\ last_total_jiffies' = worker[w].total_jiffies
  /\ worker' = [ worker EXCEPT ![w].pc = "updated" ]
  /\ UNCHANGED << envVars, cpu_usage_report_work_queue, should_work_still_run,
                  last_relevant_jiffies, cpu_usage_report_work, pcVars, logVars,
                  stopVars, errVars >>
  /\ UNCHANGED << clockVars, histVars >>

\* lines 78-79: update last counters
TickUpdate(w) ==
  /\ worker[w].pc = "reported"
  /\ last_total_jiffies' = worker[w].total_jiffies
  /\ last_relevant_jiffies' = worker[w].relevant_jiffies
  /\ worker' = [ worker EXCEPT ![w].pc = "updated" ]
  /\ UNCHANGED << envVars, cpu_usage_report_work_queue, should_work_still_run,
                  cpu_usage_report_work, pcVars, logVars, stopVars, errVars >>
  /\ UNCHANGED << clockVars, histVars >>

\* line 82: the read of the volatile flag
TickCheck(w) ==
  /\ worker[w].pc = "updated"
  /\ worker' = [ worker EXCEPT ![w].pc = "checked",
                               ![w].run = should_work_still_run ]
  /\ UNCHANGED << envVars, modVars, cpu_usage_report_work, pcVars, logVars,
                  stopVars, errVars >>
  /\ UNCHANGED << clockVars, histVars >>

\* line 83 left out: a tick that never queues the work again
TickRearmNever(w) ==
  /\ worker[w].pc = "checked"
  /\ worker' = [ worker EXCEPT ![w].pc = "return" ]
  /\ UNCHANGED << envVars, modVars, cpu_usage_report_work, pcVars, logVars,
                  stopVars, errVars >>
  /\ UNCHANGED << clockVars, histVars >>

\* a tick that queues again until the queueing succeeds
TickRearmRetry(w) ==
  /\ worker[w].pc = "checked"
  /\ IF worker[w].run /\ Pending(cpu_usage_report_work)
       THEN UNCHANGED << cpu_usage_report_work, worker, stop_rearms >>
       ELSE /\ cpu_usage_report_work' =
                 IF worker[w].run THEN queue_delayed_work(cpu_usage_report_work)
                 ELSE cpu_usage_report_work
            /\ stop_rearms' = IF Stopping /\ worker[w].run
                                THEN stop_rearms + 1 ELSE stop_rearms
            /\ worker' = [ worker EXCEPT ![w].pc = "return" ]
  /\ UNCHANGED << envVars, modVars, pcVars, logVars, stop_reports, stop_done,
                  flush_done, errVars >>
  /\ UNCHANGED << clockVars, histVars >>

\* a tick that queues again whatever the flag says
TickRearmAlways(w) ==
  /\ worker[w].pc = "checked"
  /\ cpu_usage_report_work' = queue_delayed_work(cpu_usage_report_work)
  /\ stop_rearms' = IF Stopping /\ ~Pending(cpu_usage_report_work)
                      THEN stop_rearms + 1 ELSE stop_rearms
  /\ fault' = (fault \/ cpu_usage_report_work_queue # "alloc")
  /\ worker' = [ worker EXCEPT ![w].pc = "return" ]
  /\ UNCHANGED << envVars, modVars, pcVars, logVars, stop_reports, stop_done,
                  flush_done, destroys >>
  /\ UNCHANGED << clockVars, histVars >>

\* line 83: queue_delayed_work when the flag read was true
TickRearm(w) ==
  /\ worker[w].pc = "checked"
  /\ cpu_usage_report_work' =
       IF worker[w].run THEN queue_delayed_work(cpu_usage_report_work)
       ELSE cpu_usage_report_work
  /\ stop_rearms' =
       IF Stopping /\ worker[w].run /\ ~Pending(cpu_usage_report_work)
         THEN stop_rearms + 1 ELSE stop_rearms
  /\ fault' = (fault \/ (worker[w].run /\ cpu_usage_report_work_queue # "alloc"))
  /\ worker' = [ worker EXCEPT ![w].pc = "return" ]
  /\ UNCHANGED << envVars, modVars, pcVars, logVars, stop_reports, stop_done,
                  flush_done, destroys >>
  /\ UNCHANGED << clockVars, histVars >>

\* line 84: report_work_main returns and the kworker is idle again
TickReturn(w) ==
  /\ worker[w].pc = "return"
  /\ worker' = [ worker EXCEPT ![w] = IdleWorker ]
  /\ stop_done' = IF Stopping THEN stop_done + 1 ELSE stop_done
  /\ flush_done' = IF exit_pc = "flushing" THEN flush_done + 1 ELSE flush_done
  /\ UNCHANGED << envVars, modVars, cpu_usage_report_work, pcVars, logVars,
                  stop_reports, stop_rearms, errVars >>
  /\ UNCHANGED << clockVars, histVars >>

\* ------------------------------------------------------------ cpu_usage_init
\* lines 92-96 with the sample of line 99 taken before the check of line 93
InitFailSampled ==
  /\ init_pc = "unloaded"
  /\ init_pc' = "failed"
  /\ LET stats == get_cpu_stats(cpustat, online)
     IN /\ last_total_jiffies' = stats.total
        /\ last_relevant_jiffies' = stats.relevant
  /\ UNCHANGED << envVars, cpu_usage_report_work_queue, should_work_still_run,
                  wqVars, exit_pc, logVars, stopVars, errVars >>
  /\ UNCHANGED << clockVars, histVars >>

\* lines 92-96: alloc_workqueue returns NULL and the init returns -EAGAIN
InitFail ==
  /\ init_pc = "unloaded"
  /\ init_pc' = "failed"
  /\ UNCHANGED << envVars, modVars, wqVars, exit_pc, logVars, stopVars, errVars >>
  /\ UNCHANGED << clockVars, histVars >>

\* lines 92-105: the workqueue, the first counters and the first delayed work
InitOk ==
  /\ init_pc = "unloaded"
  /\ init_pc' = "loaded"
  /\ cpu_usage_report_work_queue' = "alloc"
  /\ LET stats == get_cpu_stats(cpustat, online)
     IN /\ last_total_jiffies' = stats.total
        /\ last_relevant_jiffies' = stats.relevant
        /\ taken' = stats
        /\ prev_taken' = taken
  /\ cpu_usage_report_work' = queue_delayed_work(cpu_usage_report_work)
  /\ UNCHANGED << envVars, should_work_still_run, worker, exit_pc, logVars,
                  stopVars, errVars, clockVars >>

\* line 110 left out: cpu_usage_exit goes on to the cancel with the flag
\* still true
ExitSkipFlag ==
  /\ init_pc = "loaded"
  /\ exit_pc = "idle"
  /\ exit_pc' = "flagged"
  /\ UNCHANGED << envVars, modVars, wqVars, init_pc, logVars, stopVars,
                  errVars >>
  /\ UNCHANGED << clockVars, histVars >>

\* ------------------------------------------------------------ cpu_usage_exit
\* line 110: should_work_still_run = false (the module was loaded)
ExitSetFlag ==
  /\ init_pc = "loaded"
  /\ exit_pc = "idle"
  /\ exit_pc' = "flagged"
  /\ should_work_still_run' = FALSE
  /\ UNCHANGED << envVars, cpu_usage_report_work_queue, last_total_jiffies,
                  last_relevant_jiffies, wqVars, init_pc, logVars, stopVars,
                  errVars >>
  /\ UNCHANGED << clockVars, histVars >>

\* cancel_delayed_work followed by a flush in place of
\* cancel_delayed_work_sync: the pending work is taken, and nothing bars a
\* running tick from queueing again
ExitCancelThenFlush ==
  /\ exit_pc = "flagged"
  /\ exit_pc' = "flushing"
  /\ cpu_usage_report_work' =
       [ cpu_usage_report_work EXCEPT !.timer = FALSE, !.queued = FALSE ]
  /\ UNCHANGED << envVars, modVars, worker, init_pc, logVars, stopVars, errVars >>
  /\ UNCHANGED << clockVars, histVars >>

\* line 112, first half of cancel_delayed_work_sync: the pending timer or
\* worklist entry is taken and PENDING is held, so nobody can queue the work
ExitCancelGrab ==
  /\ exit_pc = "flagged"
  /\ exit_pc' = "flushing"
  /\ cpu_usage_report_work' =
       [ cpu_usage_report_work EXCEPT !.timer = FALSE, !.queued = FALSE,
                                      !.canceling = TRUE ]
  /\ UNCHANGED << envVars, modVars, worker, init_pc, logVars, stopVars, errVars >>
  /\ UNCHANGED << clockVars, histVars >>

\* a cancel that does not wait for the tick in flight
\* (cancel_delayed_work in place of cancel_delayed_work_sync)
ExitCancelNoWait ==
  /\ exit_pc = "flushing"
  /\ exit_pc' = "cancelled"
  /\ cpu_usage_report_work' = [ cpu_usage_report_work EXCEPT !.canceling = FALSE ]
  /\ UNCHANGED << envVars, modVars, worker, init_pc, logVars, stopVars, errVars >>
  /\ UNCHANGED << clockVars, histVars >>

\* line 112, second half: wait until no kworker runs the work, then let go
ExitCancelFlush ==
  /\ exit_pc = "flushing"
  /\ Executing = {}
  /\ exit_pc' = "cancelled"
  /\ cpu_usage_report_work' = [ cpu_usage_report_work EXCEPT !.canceling = FALSE ]
  /\ UNCHANGED << envVars, modVars, worker, init_pc, logVars, stopVars, errVars >>
  /\ UNCHANGED << clockVars, histVars >>

\* line 115: destroy_workqueue drains the queue and frees it; the pointer
\* keeps its value
ExitDestroy ==
  /\ exit_pc = "cancelled"
  /\ Executing = {}
  /\ ~cpu_usage_report_work.queued
  /\ exit_pc' = "done"
  /\ cpu_usage_report_work_queue' = "freed"
  /\ destroys' = destroys + 1
  /\ UNCHANGED << envVars, should_work_still_run, last_total_jiffies,
                  last_relevant_jiffies, wqVars, init_pc, logVars, stopVars, fault >>
  /\ UNCHANGED << clockVars, histVars >>

\* cpu_usage_exit called again after it returned: lines 110-112 change
\* nothing, line 115 destroys the workqueue that is already freed, which may
\* fault or pass unnoticed
ExitAgain ==
  /\ exit_pc = "done"
  /\ destroys < MaxExitCalls
  /\ should_work_still_run' = FALSE
  /\ destroys' = destroys + 1
  /\ \E oops \in BOOLEAN : fault' = (fault \/ oops)
  /\ UNCHANGED << envVars, cpu_usage_report_work_queue, last_total_jiffies,
                  last_relevant_jiffies, wqVars, pcVars, logVars, stopVars >>
  /\ UNCHANGED << clockVars, histVars >>

\* ------------------------------------------------------------ specifications
\* the categories the workload of the scheduler runs spends its time in: one
\* that get_cpu_stats counts as relevant and one that it does not
WorkloadIndex ==
  { i \in StatIndex : CpuTimeNames[i] \in { "CPUTIME_USER", "CPUTIME_IDLE" } }

EnvStep ==
  \/ \E cpu \in CPUs, index \in WorkloadIndex, d \in AcctSteps : Account(cpu, index, d)
  \/ \E cpu \in CPUs : CpuDown(cpu)
  \/ \E cpu \in CPUs : CpuUp(cpu)

TickStep ==
  \E w \in Workers :
    \/ WorkerStart(w)
    \/ TickSample(w)
    \/ TickReport(w)
    \/ TickUpdate(w)
    \/ TickCheck(w)
    \/ TickRearm(w)
    \/ TickReturn(w)

ExitStep == ExitSetFlag \/ ExitCancelGrab \/ ExitCancelFlush \/ ExitDestroy

Next == EnvStep \/ InitOk \/ InitFail \/ TimerFire \/ TickStep \/ ExitStep

Spec == Init /\ [][Next]_vars

\* the sampler alone: every category and every online mask, up to the first
\* sample of cpu_usage_init
NextSample ==
  \/ \E cpu \in CPUs, index \in StatIndex, d \in SampleSteps : Account(cpu, index, d)
  \/ \E cpu \in CPUs : CpuDown(cpu)
  \/ \E cpu \in CPUs : CpuUp(cpu)
  \/ InitOk

SpecSample == Init /\ [][NextSample]_vars

\* the scheduler with cpu_usage_exit callable again after it returned
NextApi == Next \/ ExitAgain

SpecApi == Init /\ [][NextApi]_vars

\* the kworker that entered report_work_main keeps running it, and the
\* thread inside cpu_usage_exit keeps running once line 110 is behind it
TickRun(w) ==
  \/ TickSample(w)
  \/ TickReport(w)
  \/ TickUpdate(w)
  \/ TickCheck(w)
  \/ TickRearm(w)
  \/ TickReturn(w)

ExitRun == ExitCancelGrab \/ ExitCancelFlush \/ ExitDestroy

\* the life cycle with the counters standing still: no step of it reads them
\* to decide what to do
NextLifecycle == InitOk \/ InitFail \/ TimerFire \/ TickStep \/ ExitStep

FairSpec ==
  /\ Init
  /\ [][NextLifecycle]_vars
  /\ \A w \in Workers : WF_vars(TickRun(w))
  /\ WF_vars(ExitRun)

\* the runs on a steady machine: no cpu goes offline or comes online, and
\* the counters only grow, by small steps
NextSteady ==
  \/ \E cpu \in CPUs, index \in WorkloadIndex, d \in AcctSteps :
       Account(cpu, index, d)
  \/ InitOk
  \/ TimerFire
  \/ TickStep
  \/ ExitStep

SpecSteady == Init /\ [][NextSteady]_vars

\* the timed runs: the period parameter is drawn at load time, the counters
\* stand still, cpu_usage_exit is not called. The clock moves only while the
\* timer of the work runs and has not run out and no work is queued or
\* executing: a timer fires when it runs out, and a tick takes no time.
Periods == (1 .. MaxPeriod) \cup { DefaultPeriod }

InitClock ==
  /\ cpustat = [ c \in CPUs |-> [ i \in StatIndex |-> 0 ] ]
  /\ online = CPUs
  /\ acct = 0
  /\ cpu_usage_report_period \in Periods
  /\ ModuleInit

Advance ==
  /\ init_pc = "loaded"
  /\ cpu_usage_report_work.timer
  /\ now < cpu_usage_report_work.expires
  /\ ~cpu_usage_report_work.queued
  /\ Executing = {}
  /\ now' = now + 1
  /\ UNCHANGED << envVars, modVars, wqVars, pcVars, logVars, stopVars, errVars,
                  cpu_usage_report_period, histVars >>

TimedFire == now >= cpu_usage_report_work.expires /\ TimerFire

NextClock == InitOk \/ Advance \/ TimedFire \/ TickStep

ClockSpec ==
  /\ InitClock
  /\ [][NextClock]_vars
  /\ WF_vars(Advance)
  /\ WF_vars(TimedFire)
  /\ WF_vars(TickStep)

\* the calculation alone: a tick that has taken its sample, with the last
\* counters and the sample drawn from both ends of the word
JiffyVals == (0 .. MaxJiffy) \cup ((Word - MaxJiffy) .. (Word - 1))

FirstWorker == CHOOSE w \in Workers : \A v \in Workers : w <= v

InitCalc ==
  /\ cpustat = [ c \in CPUs |-> [ i \in StatIndex |-> 0 ] ]
  /\ online = CPUs
  /\ acct = 0
  /\ cpu_usage_report_work_queue = "alloc"
  /\ should_work_still_run = TRUE
  /\ last_total_jiffies \in JiffyVals
  /\ last_relevant_jiffies \in JiffyVals
  /\ cpu_usage_report_work = IdleWork
  /\ \E total \in JiffyVals, relevant \in JiffyVals :
       worker = [ w \in Workers |->
                    IF w = FirstWorker
                      THEN [ pc |-> "sampled", total_jiffies |-> total,
                             relevant_jiffies |-> relevant, run |-> FALSE ]
                      ELSE IdleWorker ]
  /\ init_pc = "loaded"
  /\ exit_pc = "idle"
  /\ ticks = 1
  /\ reports = 0
  /\ last_report = NoReport
  /\ stop_reports = 0
  /\ stop_done = 0
  /\ stop_rearms = 0
  /\ flush_done = 0
  /\ destroys = 0
  /\ fault = FALSE
  /\ cpu_usage_report_period = DefaultPeriod
  /\ now = 0
  /\ taken = NoSnapshot
  /\ prev_taken = NoSnapshot

NextCalc == \E w \in Workers : TickReport(w)

SpecCalc == InitCalc /\ [][NextCalc]_vars

\* ------------------------------------------------------------------- claims
Baseline == << last_total_jiffies, last_relevant_jiffies >>
NoWork == ~Pending(cpu_usage_report_work) /\ Executing = {}

\* C1: once cpu_usage_exit has returned no work is pending or running, and
\* no step prints a usage line, starts a tick or writes the last counters.
C1_NothingAfterExit ==
  /\ [](exit_pc = "done" => NoWork)
  /\ [][exit_pc = "done" =>
          /\ reports' = reports
          /\ ticks' = ticks
          /\ Baseline' = Baseline
          /\ cpu_usage_report_work' = cpu_usage_report_work]_vars

\* cpu_usage_exit returned after waiting for a tick that was in flight
C1_Witness == exit_pc = "done" /\ flush_done = 1 /\ reports >= 1

\* C2: at most one kworker is inside report_work_main in every state.
C2_SingleTick == Cardinality(Executing) <= 1

\* the work is on the worklist again while its previous execution still runs
C2_Witness == cpu_usage_report_work.queued /\ Executing # {}

\* C3: under fair scheduling of the kworker and of the exiting thread, a
\* cpu_usage_exit that has run line 110 returns, and the wait of line 112
\* sees at most one tick return.
C3_ExitReturns ==
  /\ (exit_pc = "flagged") ~> (exit_pc = "done")
  /\ [](flush_done <= 1)

\* line 112 waits for a tick that read the flag as true and has yet to queue
C3_Witness ==
  /\ exit_pc = "flushing"
  /\ \E w \in Workers : worker[w].pc = "checked" /\ worker[w].run

\* C4 as stated: after line 110 at most one tick returns and no tick queues
\* the work again.
C4_OneMoreTickNoRearm == stop_done <= 1 /\ stop_rearms = 0

\* C4 as amended: after line 110 at most one usage line is printed, at most
\* two ticks return and the work is queued at most once more; a stop that
\* begins before any usage line leaves at most one line in total.
C4_OneMoreReport ==
  /\ stop_reports <= 1
  /\ stop_done <= 2
  /\ stop_rearms <= 1
  /\ (Stopping /\ reports = stop_reports => reports <= 1)

\* the tick in flight queued the work after line 110 and a second tick ran
C4_Witness == stop_done = 2 /\ stop_rearms = 1 /\ stop_reports = 1

\* C5: when alloc_workqueue fails nothing is queued or run, no usage line is
\* printed, and the last counters, the flag and the queue pointer keep their
\* initial values.
C5_FailedInitNoEffect ==
  init_pc = "failed" =>
    /\ NoWork
    /\ ticks = 0
    /\ reports = 0
    /\ Baseline = << 0, 0 >>
    /\ should_work_still_run = TRUE
    /\ cpu_usage_report_work_queue = "NULL"
    /\ exit_pc = "idle"

\* the init failed while the counters of the online cpus were not zero
C5_Witness ==
  /\ init_pc = "failed"
  /\ get_cpu_stats(cpustat, online).total > 0

\* C6 as stated: a call of cpu_usage_exit after it has returned changes
\* nothing: no second destroy_workqueue and no fault.
C6_SecondExitNoOp == exit_pc = "done" => destroys <= 1 /\ ~fault

\* ---- claims about the calculation, on a tick that has printed its line
Printed(w) == worker[w].pc = "reported"
TotalDelta(w) == (worker[w].total_jiffies - last_total_jiffies + Word) % Word
RelevantDelta(w) == (worker[w].relevant_jiffies - last_relevant_jiffies + Word) % Word

\* C7 as stated: the percent is 0 for a zero total delta and otherwise the
\* floor of 100 * relevantDelta / totalDelta over the integers.
C7_FloorOverIntegers ==
  \A w \in Workers :
    Printed(w) =>
      last_report.percent =
        IF TotalDelta(w) = 0 THEN 0
        ELSE (100 * RelevantDelta(w)) \div TotalDelta(w)

\* C7 as amended: the percent is 0 for a zero total delta and otherwise the
\* floor of ((100 * relevantDelta) mod 2^w) / totalDelta, which is the floor
\* over the integers whenever 100 * relevantDelta < 2^w.
C7_FloorOfWordProduct ==
  \A w \in Workers :
    Printed(w) =>
      LET p == last_report.percent
          product == (100 * RelevantDelta(w)) % Word
      IN IF TotalDelta(w) = 0 THEN p = 0
         ELSE /\ p * TotalDelta(w) <= product
              /\ product < (p + 1) * TotalDelta(w)
              /\ (100 * RelevantDelta(w) < Word =>
                    p = (100 * RelevantDelta(w)) \div TotalDelta(w))

\* one third of the elapsed time was relevant: 33 percent, rounded down
C7_Witness ==
  \E w \in Workers :
    /\ Printed(w)
    /\ TotalDelta(w) = 3
    /\ RelevantDelta(w) = 1
    /\ last_report.percent = 33

Monotone(w) ==
  /\ worker[w].total_jiffies >= last_total_jiffies
  /\ worker[w].relevant_jiffies >= last_relevant_jiffies

\* C8 as stated: counters that did not go down give a percent in 0 .. 100.
C8_PercentInRange ==
  \A w \in Workers :
    Printed(w) /\ Monotone(w) =>
      0 <= last_report.percent /\ last_report.percent <= 100

\* C8 as amended: counters that did not go down, with the relevant delta no
\* larger than the total delta, give a percent in 0 .. 100.
C8_PercentInRangeBounded ==
  \A w \in Workers :
    Printed(w) /\ Monotone(w) /\ RelevantDelta(w) <= TotalDelta(w) =>
      0 <= last_report.percent /\ last_report.percent <= 100

\* all of the elapsed time was relevant: 100 percent
C8_Witness ==
  \E w \in Workers :
    /\ Printed(w)
    /\ Monotone(w)
    /\ TotalDelta(w) > 0
    /\ RelevantDelta(w) = TotalDelta(w)
    /\ last_report.percent = 100

\* C9: a zero total delta prints 0 without evaluating the division, whatever
\* the relevant delta is; in particular when the sample equals the last
\* counters.
C9_ZeroDeltaZeroPercent ==
  \A w \in Workers :
    Printed(w) /\ TotalDelta(w) = 0 =>
      /\ last_report.percent = 0
      /\ ~last_report.divided
      /\ ~last_report.fault
      /\ ~fault

\* a zero total delta with a relevant delta that is not zero
C9_Witness ==
  \E w \in Workers :
    /\ Printed(w)
    /\ TotalDelta(w) = 0
    /\ RelevantDelta(w) > 0

\* ---- claims about the sampler
RECURSIVE ExactSum(_, _)
ExactSum(stat, cells) ==
  IF cells = {} THEN 0
  ELSE LET cell == CHOOSE x \in cells : TRUE
       IN stat[cell[1]][cell[2]] + ExactSum(stat, cells \ { cell })

\* the sum of the counters of the online cpus over the integers
ExactTotal == ExactSum(cpustat, online \X StatIndex)

\* C10 as stated: every sample, and the last counters once the module is
\* loaded, have relevant <= total.
C10_RelevantAtMostTotal ==
  /\ get_cpu_stats(cpustat, online).relevant <= get_cpu_stats(cpustat, online).total
  /\ (init_pc = "loaded" => last_relevant_jiffies <= last_total_jiffies)

\* C10 as amended: when the counters of the online cpus sum to less than 2^w
\* the sample has relevant <= total, and so have the last counters taken
\* from it.
C10_RelevantAtMostTotalNoWrap ==
  ExactTotal < Word =>
    /\ get_cpu_stats(cpustat, online).relevant <= get_cpu_stats(cpustat, online).total
    /\ (init_pc = "loaded" => last_relevant_jiffies <= last_total_jiffies)

\* the module took its first sample from counters with relevant time in them
C10_Witness ==
  /\ init_pc = "loaded"
  /\ ExactTotal < Word
  /\ 0 < last_relevant_jiffies
  /\ last_relevant_jiffies < last_total_jiffies
\* ---- C11 ----
\* C11: the deltas a tick prints are taken against the snapshot of the
\* sampling that came immediately before its own: the one of cpu_usage_init
\* for the first tick, the one of the preceding tick for every later tick,
\* also when that preceding tick printed a zero or wrapped delta.
C11_BaselineChaining ==
  \A w \in Workers :
    Printed(w) =>
      /\ taken = [ total |-> worker[w].total_jiffies,
                   relevant |-> worker[w].relevant_jiffies ]
      /\ last_report.totalDelta =
           (worker[w].total_jiffies - prev_taken.total + Word) % Word
      /\ last_report.relevantDelta =
           (worker[w].relevant_jiffies - prev_taken.relevant + Word) % Word

\* the second tick has printed, its sample below the snapshot of the first
\* tick, which itself was not the zero snapshot
C11_Witness ==
  /\ ticks = 2
  /\ prev_taken.total > 0
  /\ \E w \in Workers :
       Printed(w) /\ worker[w].total_jiffies < prev_taken.total

\* ---- C12 ----
\* nothing is due: the timer of the work runs and has not run out
NothingDue ==
  /\ cpu_usage_report_work.timer
  /\ now < cpu_usage_report_work.expires
  /\ ~cpu_usage_report_work.queued
  /\ Executing = {}

TickTimes ==
  init_pc = "loaded" =>
    /\ \A w \in Workers :
         worker[w].pc # "idle" => now = ticks * cpu_usage_report_period
    /\ cpu_usage_report_work.queued =>
         now = (ticks + 1) * cpu_usage_report_period
    /\ cpu_usage_report_work.timer =>
         cpu_usage_report_work.expires = (ticks + 1) * cpu_usage_report_period
    /\ NothingDue => ticks = now \div cpu_usage_report_period

BeforePrint == { w \in Workers : worker[w].pc \in { "entry", "sampled" } }

\* C13: the usage lines printed number exactly the ticks that have run
\* past lines 74-75, one line for each, whatever the deltas and whether or
\* not cpu_usage_exit has been called; no other step prints a usage line.
C13_OneReportPerTick == reports = ticks - Cardinality(BeforePrint)

\* a tick that runs while cpu_usage_exit is under way has printed its line,
\* with a total delta of zero
C13_Witness ==
  /\ stop_reports = 1
  /\ last_report.totalDelta = 0
  /\ \E w \in Workers : Printed(w)

\* ---- C14 ----
\* C14: in cpu_usage_exit the flag is false when the cancel takes the
\* pending work and when the wait for a running tick ends; the workqueue is
\* destroyed only after that wait has ended, and at the step that destroys
\* it no tick executes and no work is pending.
C14_StopOrder ==
  [][ /\ (~cpu_usage_report_work.canceling /\ cpu_usage_report_work'.canceling)
           => ~should_work_still_run
      /\ (exit_pc = "flushing" /\ exit_pc' = "cancelled")
           => ~should_work_still_run /\ Executing = {}
      /\ (cpu_usage_report_work_queue # "freed"
             /\ cpu_usage_report_work_queue' = "freed")
           => exit_pc = "cancelled" /\ NoWork /\ NoWork'
    ]_vars

\* the workqueue is destroyed after a tick ran to its end during the stop
C14_Witness == cpu_usage_report_work_queue = "freed" /\ stop_done = 1

\* ---- C15 ----
\* the step of line 83 of the tick on kworker w
RearmStep(w) == worker[w].pc = "checked" /\ worker'[w].pc = "return"

\* C15 as stated: after the step of line 83 the timer of the work is armed
\* if and only if the flag read at line 82 was true, and when it was false
\* nothing is pending.
C15_RearmIffFlagRead ==
  [][ \A w \in Workers :
        RearmStep(w) =>
          /\ cpu_usage_report_work'.timer <=> worker[w].run
          /\ ~worker[w].run =>
               ~cpu_usage_report_work'.timer /\ ~cpu_usage_report_work'.queued
    ]_vars

\* C15: the flag is read at line 82 after the usage line is printed and the
\* last counters are updated; after the step of line 83 the timer of the
\* work is armed if and only if the flag read was true and
\* cancel_delayed_work_sync does not hold the work, and when the flag read
\* was false nothing is pending.
C15_RearmIffFlagReadAndNotCanceling ==
  [][ \A w \in Workers :
        /\ (worker[w].pc = "updated" /\ worker'[w].pc = "checked") =>
             /\ worker'[w].run = should_work_still_run
             /\ reports = ticks
             /\ Baseline = << worker[w].total_jiffies,
                              worker[w].relevant_jiffies >>
        /\ RearmStep(w) =>
             /\ cpu_usage_report_work'.timer <=>
                  (worker[w].run /\ ~cpu_usage_report_work.canceling)
             /\ ~worker[w].run =>
                  ~cpu_usage_report_work'.timer /\ ~cpu_usage_report_work'.queued
    ]_vars

\* a tick that read the flag as true has passed line 83 while
\* cancel_delayed_work_sync held the work: nothing is armed
C15_Witness ==
  \E w \in Workers :
    /\ worker[w].pc = "return"
    /\ worker[w].run
    /\ cpu_usage_report_work.canceling
    /\ ~cpu_usage_report_work.timer

\* ---- C16 ----
\* C16: no step of cpu_usage_exit touches a tick in flight, and once
\* cancel_delayed_work_sync has returned every tick that started has
\* taken its sample, printed its line and written the last counters: no
\* tick executes, the usage lines number the ticks, and the last counters
\* are the last snapshot taken.
C16_TickRunsToEnd ==
  /\ [](exit_pc \in { "cancelled", "done" } =>
          /\ Executing = {}
          /\ reports = ticks
          /\ Baseline = << taken.total, taken.relevant >>)
  /\ [][ exit_pc' # exit_pc =>
            /\ worker' = worker
            /\ reports' = reports
            /\ Baseline' = Baseline
       ]_vars

\* cancel_delayed_work_sync has returned after waiting for a tick that
\* printed its line during the stop
C16_Witness == exit_pc = "cancelled" /\ flush_done = 1 /\ stop_reports = 1

\* ---- C17 ----
\* C17: a tick whose sampled total is below the last total counter does
\* not fault: it prints a line whose total delta is the difference taken
\* modulo 2^WordBits, with some percentage of the word, and it writes its
\* sample to the last counters all the same.
C17_WrapNoFault ==
  \A w \in Workers :
    /\ (Printed(w) /\ worker[w].total_jiffies < last_total_jiffies) =>
         /\ ~fault
         /\ reports = ticks
         /\ last_report.totalDelta =
              worker[w].total_jiffies - last_total_jiffies + Word
         /\ last_report.totalDelta \in 1 .. (Word - 1)
         /\ last_report.percent \in 0 .. (Word - 1)
    /\ (worker[w].pc \in { "updated", "checked", "return" }
           /\ worker[w].total_jiffies < prev_taken.total) =>
         /\ ~fault
         /\ Baseline = << worker[w].total_jiffies, worker[w].relevant_jiffies >>

\* a tick whose sample was below the snapshot before it has written the
\* last counters
C17_Witness ==
  \E w \in Workers :
    /\ worker[w].pc = "updated"
    /\ worker[w].total_jiffies < prev_taken.total
    /\ last_report.totalDelta > worker[w].total_jiffies

\* ---- C18 ----
\* the categories the claim counts as busy: user, nice, system, irq,
\* softirq, steal
BusyIndex ==
  { i \in StatIndex :
      CpuTimeNames[i] \in { "CPUTIME_USER", "CPUTIME_NICE", "CPUTIME_SYSTEM",
                            "CPUTIME_IRQ", "CPUTIME_SOFTIRQ", "CPUTIME_STEAL" } }

\* the sum of the busy counters of the online cpus over the integers
ExactBusy == ExactSum(cpustat, online \X BusyIndex)

\* C18 as stated: the sample has total equal to the sum of all counters of
\* the online cpus and relevant equal to the sum of their busy counters;
\* with no cpu online both are 0.
C18_SampleIsExactSum ==
  /\ get_cpu_stats(cpustat, online).total = ExactTotal
  /\ get_cpu_stats(cpustat, online).relevant = ExactBusy
  /\ get_cpu_stats(cpustat, {}) = [ total |-> 0, relevant |-> 0 ]

\* C18 as amended: the sample has total equal, modulo 2^WordBits, to the
\* sum of all counters of the online cpus and relevant equal, modulo
\* 2^WordBits, to the sum of their busy counters; the counters of offline
\* cpus do not enter; with no cpu online both are 0; the last counters
\* written by cpu_usage_init are that sample.
C18_SampleIsSumModWord ==
  /\ get_cpu_stats(cpustat, online).total = ExactTotal % Word
  /\ get_cpu_stats(cpustat, online).relevant = ExactBusy % Word
  /\ get_cpu_stats(cpustat, {}) = [ total |-> 0, relevant |-> 0 ]
  /\ init_pc = "loaded" => Baseline = << ExactTotal % Word, ExactBusy % Word >>

\* the module took its first sample while an offline cpu held counted time
\* and the online cpus held time that is not busy
C18_Witness ==
  /\ init_pc = "loaded"
  /\ ExactSum(cpustat, (CPUs \ online) \X StatIndex) > 0
  /\ last_total_jiffies > last_relevant_jiffies

\* ---- C19 ----
\* C19: the work is never pending twice (its timer armed while it is on
\* the worklist), and its timer is armed only by cpu_usage_init, at its one
\* successful return, or by a tick at its line 83, and only when the work
\* is not pending.
C19_NoDoubleScheduling ==
  /\ [](~(cpu_usage_report_work.timer /\ cpu_usage_report_work.queued))
  /\ [][ (~cpu_usage_report_work.timer /\ cpu_usage_report_work'.timer) =>
            /\ ~Pending(cpu_usage_report_work)
            /\ \/ init_pc = "unloaded" /\ init_pc' = "loaded"
               \/ \E w \in Workers : RearmStep(w)
       ]_vars

\* the second tick has armed the timer again and has not yet returned
C19_Witness ==
  /\ ticks = 2
  /\ cpu_usage_report_work.timer
  /\ \E w \in Workers : worker[w].pc = "return"

\* ---- C20 ----
\* C20: on a machine whose set of online cpus is fixed and whose counters
\* never decrease, when the counters sum to less than 2^WordBits and 100
\* times the relevant delta is less than 2^WordBits, the percentage of
\* every usage line is an integer from 0 to 100.
C20_PercentInRangeSteady ==
  (reports > 0 /\ ExactTotal < Word /\ 100 * last_report.relevantDelta < Word) =>
    last_report.percent \in 0 .. 100

\* the second tick printed a load strictly between 0 and 100
C20_Witness ==
  /\ reports = 2
  /\ ExactTotal < Word
  /\ 100 * last_report.relevantDelta < Word
  /\ last_report.percent \in 1 .. 99

====
